---- MODULE Spec2Model ----
(***************************************************************************)
(* Model of the bookstore REST backend in src/server.js: the product       *)
(* collection (data/books.json), the shared cart document (data/cart.json),*)
(* the users (data/users.json), the admin login and auth gate, the cart    *)
(* routes, the public and the admin product query and the admin create /   *)
(* update / delete routes.                                                 *)
(*                                                                         *)
(* Representation of JavaScript values:                                    *)
(*   - a string is a sequence of one-character strings (so that            *)
(*     toLowerCase, includes, trim and localeCompare can be computed);     *)
(*   - a JSON object (request body, query string, patch) is a record whose *)
(*     DOMAIN holds exactly the keys that are present;                     *)
(*   - null / undefined for an optional number is the empty sequence and a *)
(*     present number n is <<n>> (discountPrice);                          *)
(*   - numbers are integers (prices are whole currency units);             *)
(*   - a conversion that can fail (Number, parseInt) yields the set of its *)
(*     results: {} stands for NaN, which is !== to every value.            *)
(* Timestamps (lastUpdated, createdAt, updatedAt, addedAt) are not part of *)
(* the state; the admin query is sent with a sortBy other than createdAt.  *)
(***************************************************************************)
EXTENDS Integers, Sequences, FiniteSets, TLC

VARIABLES
    products,   \* the "products" array of data/books.json
    cartFile,   \* data/cart.json: <<>> when the file does not exist, else <<cart>>
    last,       \* the last request served and the HTTP status it got: [op, req, status]
    users,      \* the "users" array of data/users.json (no route writes it)
    calls       \* the requests that reached the server, in order of arrival, each
                \* with the position of its handler: "sent", "awaiting" or "done"

vars == <<products, cartFile, last, users, calls>>

----------------------------------------------------------------------------
(* Bounds of the model *)

\* line-item quantities are kept within -MaxQty .. MaxQty
MaxQty == 2
\* the product collection holds at most MaxProducts records
MaxProducts == 2
\* product identifiers are kept within 1 .. MaxId
MaxId == MaxProducts
\* at most MaxCalls requests reach the server while their order is tracked
MaxCalls == 2

----------------------------------------------------------------------------
(* JavaScript helpers *)

\* String.prototype.toLowerCase on the alphabet the model uses
LowerChar(c) == CASE c = "A" -> "a" [] c = "B" -> "b" [] OTHER -> c
ToLowerCase(s) == [i \in DOMAIN s |-> LowerChar(s[i])]

\* String.prototype.includes
Includes(s, sub) ==
    \E k \in 0 .. (Len(s) - Len(sub)) :
        \A i \in 1 .. Len(sub) : s[k + i] = sub[i]

\* String.prototype.trim
RECURSIVE TrimStart(_)
TrimStart(s) == IF s # <<>> /\ Head(s) = " " THEN TrimStart(Tail(s)) ELSE s
RECURSIVE TrimEnd(_)
TrimEnd(s) ==
    IF s # <<>> /\ s[Len(s)] = " " THEN TrimEnd(SubSeq(s, 1, Len(s) - 1)) ELSE s
Trim(s) == TrimEnd(TrimStart(s))

\* primary collation weight of a character: space, digits, then letters with
\* the case ignored
CharRank(c) == CASE c = " " -> 0
                 [] c \in {"a", "A"} -> 2
                 [] c \in {"b", "B"} -> 3
                 [] OTHER -> 1
\* tertiary weight: lower case sorts before upper case
CaseRank(c) == IF c \in {"A", "B"} THEN 1 ELSE 0

\* lexicographic comparison of two sequences of integers: -1, 0 or 1
RECURSIVE CompareSeq(_, _)
CompareSeq(s, t) ==
    IF s = <<>> /\ t = <<>> THEN 0
    ELSE IF s = <<>> THEN -1
    ELSE IF t = <<>> THEN 1
    ELSE IF Head(s) < Head(t) THEN -1
    ELSE IF Head(s) > Head(t) THEN 1
    ELSE CompareSeq(Tail(s), Tail(t))

\* String.prototype.localeCompare: primary weights first, case as tie-break
LocaleCompare(s, t) ==
    LET prim == CompareSeq([i \in DOMAIN s |-> CharRank(s[i])],
                           [i \in DOMAIN t |-> CharRank(t[i])])
    IN  IF prim # 0 THEN prim
        ELSE CompareSeq([i \in DOMAIN s |-> CaseRank(s[i])],
                        [i \in DOMAIN t |-> CaseRank(t[i])])

\* value of a decimal digit character; {} when the character is no digit
DigitVal(c) == CASE c = "0" -> {0} [] c = "1" -> {1} [] c = "2" -> {2}
                 [] c = "3" -> {3} [] c = "4" -> {4} [] c = "5" -> {5}
                 [] c = "6" -> {6} [] c = "7" -> {7} [] c = "8" -> {8}
                 [] c = "9" -> {9} [] OTHER -> {}

\* the longest prefix of s made of digits
RECURSIVE DigitPrefix(_)
DigitPrefix(s) ==
    IF s # <<>> /\ DigitVal(Head(s)) # {} THEN <<Head(s)>> \o DigitPrefix(Tail(s))
    ELSE <<>>

\* decimal value of a non-empty sequence of digits
RECURSIVE DigitsValue(_)
DigitsValue(s) ==
    IF s = <<>> THEN 0
    ELSE 10 * DigitsValue(SubSeq(s, 1, Len(s) - 1))
         + (CHOOSE v \in DigitVal(s[Len(s)]) : TRUE)

\* parseInt(string): the leading digits, NaN ({}) when there are none
ParseInt(s) == IF DigitPrefix(s) = <<>> THEN {} ELSE {DigitsValue(DigitPrefix(s))}

\* Number(string): the whole string must be digits; Number("") is 0
NumberOf(s) == IF DigitPrefix(s) = s THEN {DigitsValue(s)} ELSE {}

----------------------------------------------------------------------------
(* Array helpers *)

\* Array.prototype.findIndex, 1-based, over the sequence of the callback's
\* results: the first index that holds TRUE; 0 stands for JavaScript's -1
FindIndex(hits) ==
    IF \E i \in DOMAIN hits : hits[i]
    THEN CHOOSE i \in DOMAIN hits : hits[i] /\ \A j \in 1 .. (i - 1) : ~hits[j]
    ELSE 0

\* Array.prototype.filter, given the sequence of the callback's results: the
\* elements of s whose result is TRUE, in their order
Filter(s, keep) ==
    LET kept == {i \in DOMAIN s : keep[i]}
    IN  [k \in 1 .. Cardinality(kept) |->
            s[CHOOSE i \in kept : Cardinality({j \in kept : j <= i}) = k]]

\* Array.prototype.splice(index, 1)
RemoveAt(s, i) == SubSeq(s, 1, i - 1) \o SubSeq(s, i + 1, Len(s))

----------------------------------------------------------------------------
(* Auth gate *)

\* jwt.verify with the server's secret: the set holding the decoded payload, or
\* {} when verification fails (bad signature, expired, not a token).
\* "adminJwt" and "userJwt" were signed with the server's secret for an admin and
\* for a non-admin user, "expiredJwt" is an admin token past its 8 hours,
\* "forgedJwt" carries role admin under another signing secret.
JwtVerify(token) ==
    CASE token = "adminJwt" -> {[id |-> 1, role |-> "admin"]}
      [] token = "userJwt"  -> {[id |-> 2, role |-> "customer"]}
      [] OTHER              -> {}

\* authHeader && authHeader.split(" ")[1]: the second space-separated word of the
\* header; the header is given as the sequence of its words, <<>> when it is
\* absent, and the result is "" (falsy, as undefined is) without a second word
HeaderToken(authHeader) == IF Len(authHeader) >= 2 THEN authHeader[2] ELSE ""

\* authenticateToken: 401 without a token, 403 when verification fails, else 0
\* (next() is called with req.user set)
authenticateToken(authHeader) ==
    IF HeaderToken(authHeader) = "" THEN 401
    ELSE IF JwtVerify(HeaderToken(authHeader)) = {} THEN 403
    ELSE 0

\* requireAdmin without the role test
requireAdmin_AnyRole(user) == 0

\* requireAdmin: 403 unless req.user.role is "admin", else 0 (next() is called)
requireAdmin(user) == IF user.role # "admin" THEN 403 ELSE 0

\* the two middlewares in route order: the status that ends the request, or 0
\* when the route handler runs
AdminGate(authHeader) ==
    IF authenticateToken(authHeader) # 0 THEN authenticateToken(authHeader)
    ELSE requireAdmin(CHOOSE u \in JwtVerify(HeaderToken(authHeader)) : TRUE)

----------------------------------------------------------------------------
(* Document store *)

\* a request without parameters: the empty object
NoRequest == [k \in {} |-> ""]

\* the value of last once a request was answered
Served(op, req, status) == [op |-> op, req |-> req, status |-> status]

\* the cart readCart returns when data/cart.json cannot be read
EmptyCart == [items |-> <<>>, total |-> 0, totalItems |-> 0]

readCart == IF cartFile = <<>> THEN EmptyCart ELSE cartFile[1]

readProducts == products

\* the value of last when the claims read the response body as well
Answered(op, req, status, body) ==
    [op |-> op, req |-> req, status |-> status, body |-> body]

readUsers == users

----------------------------------------------------------------------------
(* Login: POST /api/admin/login *)

\* the hash bcrypt stores for a password: the scheme prefix, then a digest that
\* is kept as the password itself, in reverse
BcryptHash(password) ==
    <<"$", "2", "a", "$">> \o [i \in DOMAIN password |-> password[Len(password) + 1 - i]]

\* bcrypt.compare(password, hash)
BcryptCompare(password, hash) == BcryptHash(password) = hash

\* !email || !password: the key is absent or holds the empty string
MissingCredentials(body) ==
    \/ "email" \notin DOMAIN body \/ body.email = <<>>
    \/ "password" \notin DOMAIN body \/ body.password = <<>>

\* the user lookup without the role test
FindAdmin_AnyRole(us, email) ==
    FindIndex([i \in DOMAIN us |-> us[i].email = email])

\* usersData.users.find((u) => u.email === email && u.role === "admin"), as an
\* index
FindAdmin(us, email) ==
    FindIndex([i \in DOMAIN us |-> us[i].email = email /\ us[i].role = "admin"])

\* jwt.sign({ id, email, role, name }, secret, { expiresIn: "8h" })
JwtSign(user) ==
    [id |-> user.id, email |-> user.email, role |-> user.role, name |-> user.name,
     expiresIn |-> "8h"]

\* the status POST /api/admin/login answers with
LoginStatus(us, body) ==
    IF MissingCredentials(body) THEN 400
    ELSE IF FindAdmin(us, body.email) = 0 THEN 401
    ELSE IF ~BcryptCompare(body.password, us[FindAdmin(us, body.email)].password)
    THEN 401
    ELSE 200

\* the response body of POST /api/admin/login
LoginResponse(us, body) ==
    IF MissingCredentials(body)
    THEN [success |-> FALSE, message |-> "Email si parola sunt obligatorii"]
    ELSE IF FindAdmin(us, body.email) = 0
    THEN [success |-> FALSE, message |-> "Acces restrictionat doar administratori"]
    ELSE IF ~BcryptCompare(body.password, us[FindAdmin(us, body.email)].password)
    THEN [success |-> FALSE, message |-> "Parola incorecta"]
    ELSE [success |-> TRUE, message |-> "Autentificare admin reusita",
          token |-> JwtSign(us[FindAdmin(us, body.email)])]

\* POST /api/admin/login
AdminLogin(body) ==
    /\ last' = Answered("login", body, LoginStatus(readUsers, body),
                        LoginResponse(readUsers, body))
    /\ UNCHANGED <<products, cartFile, users, calls>>

----------------------------------------------------------------------------
(* Cart engine *)

\* cart.items.reduce((sum, item) => sum + item.price * item.quantity, 0)
RECURSIVE SumTotal(_)
SumTotal(items) ==
    IF items = <<>> THEN 0
    ELSE SumTotal(SubSeq(items, 1, Len(items) - 1))
         + items[Len(items)].price * items[Len(items)].quantity

\* cart.items.reduce((sum, item) => sum + item.quantity, 0)
RECURSIVE SumQuantity(_)
SumQuantity(items) ==
    IF items = <<>> THEN 0
    ELSE SumQuantity(SubSeq(items, 1, Len(items) - 1)) + items[Len(items)].quantity

\* the totals step with the total carried over from the cart that was read
\* instead of being summed again
Recompute_StaleTotal(items) ==
    [items |-> items, total |-> readCart.total, totalItems |-> SumQuantity(items)]

\* the two reduce calls that end POST /api/cart and DELETE /api/cart/:productId
Recompute(items) ==
    [items |-> items, total |-> SumTotal(items), totalItems |-> SumQuantity(items)]

\* const { productId, quantity = 1 } = req.body
BodyQuantity(body) == IF "quantity" \in DOMAIN body THEN body.quantity ELSE 1

\* !productId: the key is absent or its value is the falsy number 0
MissingProductId(body) == "productId" \notin DOMAIN body \/ body.productId = 0

\* products.find((p) => p.id === productId && p.isActive === true), as an index
FindActive(prods, productId) ==
    FindIndex([i \in DOMAIN prods |->
                  prods[i].id = productId /\ prods[i].isActive = TRUE])

\* product.discountPrice || product.price
UnitPrice(product) ==
    IF product.discountPrice # <<>> /\ product.discountPrice[1] # 0
    THEN product.discountPrice[1]
    ELSE product.price

\* the new line item pushed by POST /api/cart
NewItem(product, productId, quantity) ==
    [productId |-> productId, quantity |-> quantity, title |-> product.title,
     author |-> product.author, price |-> UnitPrice(product)]

\* the merge-or-append step without the lookup of an existing line
AddToItems_AlwaysPush(items, product, productId, quantity) ==
    Append(items, NewItem(product, productId, quantity))

\* the merge-or-append step with the merged line taking the product's current
\* title, author and price
AddToItems_RepriceOnMerge(items, product, productId, quantity) ==
    LET existingItemIndex ==
            FindIndex([i \in DOMAIN items |-> items[i].productId = productId])
    IN  IF existingItemIndex > 0
        THEN [items EXCEPT ![existingItemIndex] =
                 NewItem(product, productId, @.quantity + quantity)]
        ELSE Append(items, NewItem(product, productId, quantity))

\* cart.items after the merge-or-append step of POST /api/cart
AddToItems(items, product, productId, quantity) ==
    LET existingItemIndex ==
            FindIndex([i \in DOMAIN items |-> items[i].productId = productId])
    IN  IF existingItemIndex > 0
        THEN [items EXCEPT ![existingItemIndex].quantity = @ + quantity]
        ELSE Append(items, NewItem(product, productId, quantity))

\* the status of POST /api/cart with the stock compared to the quantity the
\* line would hold after the merge
PostCartStatus_MergedStock(prods, body) ==
    LET inCart == FindIndex([i \in DOMAIN readCart.items |->
                                readCart.items[i].productId = body.productId])
        held == IF inCart > 0 THEN readCart.items[inCart].quantity ELSE 0
    IN  IF MissingProductId(body) THEN 400
        ELSE IF FindActive(prods, body.productId) = 0 THEN 404
        ELSE IF prods[FindActive(prods, body.productId)].stock
                    < held + BodyQuantity(body) THEN 400
        ELSE 200

\* the status POST /api/cart answers with
PostCartStatus(prods, body) ==
    IF MissingProductId(body) THEN 400
    ELSE IF FindActive(prods, body.productId) = 0 THEN 404
    ELSE IF prods[FindActive(prods, body.productId)].stock < BodyQuantity(body) THEN 400
    ELSE 200

\* POST /api/cart with the quantity taken off the product's stock
PostCart_TakesStock(body) ==
    LET status == PostCartStatus(readProducts, body)
    IN  /\ last' = Served("addItem", body, status)
        /\ UNCHANGED <<users, calls>>
        /\ IF status # 200 THEN UNCHANGED <<products, cartFile>>
           ELSE LET productIndex == FindActive(readProducts, body.productId)
                    cart == Recompute(AddToItems(readCart.items,
                                                 readProducts[productIndex],
                                                 body.productId, BodyQuantity(body)))
                IN  /\ \A i \in DOMAIN cart.items :
                          cart.items[i].quantity \in (0 - MaxQty) .. MaxQty
                    /\ cartFile' = <<cart>>
                    /\ products' = [products EXCEPT
                                       ![productIndex].stock = @ - BodyQuantity(body)]

\* POST /api/cart
PostCart(body) ==
    LET status == PostCartStatus(readProducts, body)
    IN  /\ last' = Served("addItem", body, status)
        /\ UNCHANGED <<products, users, calls>>
        /\ IF status # 200 THEN UNCHANGED cartFile
           ELSE LET product == readProducts[FindActive(readProducts, body.productId)]
                    cart == Recompute(AddToItems(readCart.items, product,
                                                 body.productId, BodyQuantity(body)))
                IN  /\ \A i \in DOMAIN cart.items :
                          cart.items[i].quantity \in (0 - MaxQty) .. MaxQty
                    /\ cartFile' = <<cart>>

\* the filter with the path parameter read by parseInt, which accepts trailing
\* characters
RemoveFromItems_ParseInt(items, productId) ==
    Filter(items, [i \in DOMAIN items |->
                      items[i].productId \notin ParseInt(productId)])

\* cart.items.filter((item) => item.productId !== productIdNum)
RemoveFromItems(items, productId) ==
    Filter(items, [i \in DOMAIN items |->
                      items[i].productId \notin NumberOf(productId)])

\* DELETE /api/cart/:productId (the path parameter is a string)
DeleteCartItem(productId) ==
    /\ cartFile' = <<Recompute(RemoveFromItems(readCart.items, productId))>>
    /\ last' = Served("removeItem", [productId |-> productId], 200)
    /\ UNCHANGED <<products, users, calls>>

\* the cart POST /api/clear-cart saves
ClearedCart(cart) == [cart EXCEPT !.items = <<>>, !.total = 0, !.totalItems = 0]

\* POST /api/clear-cart
ClearCart ==
    /\ cartFile' = <<ClearedCart(readCart)>>
    /\ last' = Served("clearCart", NoRequest, 200)
    /\ UNCHANGED <<products, users, calls>>

\* GET /api/cart
GetCart ==
    /\ last' = Served("getCart", NoRequest, 200)
    /\ UNCHANGED <<products, cartFile, users, calls>>

----------------------------------------------------------------------------
(* Cart requests that overlap in time                                        *)
(* A request that reached the server is a record of calls: op and req, pc    *)
(* ("sent": its handler has not started; "awaiting": its handler is          *)
(* suspended at an await, cart holding the value of its local `cart`;        *)
(* "done": answered, with status), and overlaps, the calls that were not yet *)
(* answered when it arrived. A handler runs from its start to its first      *)
(* await, or to its end, without any other code of the server running.       *)

\* every cart handler written with an await between readCart and saveCart
Suspends_EveryHandler(op) == TRUE

\* the cart handlers with an await between readCart and saveCart: only POST
\* /api/clear-cart (const cart = await readCart())
Suspends(op) == op = "clearCart"

\* what a cart handler answers and saves once it holds the cart it read:
\* status, and save, <<>> when saveCart is not reached, else <<the cart>>
Outcome(op, req, cart) ==
    CASE op = "addItem" ->
            IF PostCartStatus(readProducts, req) # 200
            THEN [status |-> PostCartStatus(readProducts, req), save |-> <<>>]
            ELSE [status |-> 200,
                  save |-> <<Recompute(AddToItems(
                                cart.items,
                                readProducts[FindActive(readProducts, req.productId)],
                                req.productId, BodyQuantity(req)))>>]
      [] op = "removeItem" ->
            [status |-> 200,
             save |-> <<Recompute(RemoveFromItems(cart.items, req.productId))>>]
      [] OTHER ->
            [status |-> 200, save |-> <<ClearedCart(cart)>>]

\* a request reaches the server
Arrive(op, req) ==
    /\ Len(calls) < MaxCalls
    /\ calls' = Append(calls, [op |-> op, req |-> req, pc |-> "sent", status |-> 0,
                               cart |-> EmptyCart,
                               overlaps |-> {k \in DOMAIN calls : calls[k].pc # "done"}])
    /\ UNCHANGED <<products, cartFile, last, users>>

\* the end of a handler: saveCart when it is reached, then the response
Finish(c, cart) ==
    LET result == Outcome(calls[c].op, calls[c].req, cart)
    IN  /\ cartFile' = IF result.save = <<>> THEN cartFile ELSE result.save
        /\ calls' = [calls EXCEPT ![c].pc = "done", ![c].status = result.status,
                                  ![c].cart = EmptyCart]
        /\ last' = Served(calls[c].op, calls[c].req, result.status)
        /\ UNCHANGED <<products, users>>

\* the handler of a request starts: it runs to its end, or reads the cart and
\* stops at its await
Begin(c) ==
    /\ calls[c].pc = "sent"
    /\ IF Suspends(calls[c].op)
       THEN /\ calls' = [calls EXCEPT ![c].pc = "awaiting", ![c].cart = readCart]
            /\ UNCHANGED <<products, cartFile, last, users>>
       ELSE Finish(c, readCart)

\* a suspended handler continues after its await, with the cart it read
Resume(c) ==
    /\ calls[c].pc = "awaiting"
    /\ Finish(c, calls[c].cart)

----------------------------------------------------------------------------
(* Catalog query engine: GET /api/products *)

\* the comparator of each recognised sort key; 0 for any other key
SortCompare(sort, a, b) ==
    CASE sort = "price_asc"  -> a.price - b.price
      [] sort = "price_desc" -> b.price - a.price
      [] sort = "title_asc"  -> LocaleCompare(a.title, b.title)
      [] sort = "title_desc" -> LocaleCompare(b.title, a.title)
      [] OTHER               -> 0

\* x placed behind the last element that does not compare greater than it
InsertSorted(sort, s, x) ==
    LET k == IF \E i \in DOMAIN s : SortCompare(sort, s[i], x) <= 0
             THEN CHOOSE i \in DOMAIN s :
                      /\ SortCompare(sort, s[i], x) <= 0
                      /\ \A j \in (i + 1) .. Len(s) : SortCompare(sort, s[j], x) > 0
             ELSE 0
    IN  SubSeq(s, 1, k) \o <<x>> \o SubSeq(s, k + 1, Len(s))

\* Array.prototype.sort (stable) under the comparator of the sort key
RECURSIVE SortProducts(_, _)
SortProducts(sort, s) ==
    IF s = <<>> THEN <<>>
    ELSE InsertSorted(sort, SortProducts(sort, SubSeq(s, 1, Len(s) - 1)), s[Len(s)])

\* a query-string parameter that is present and not the empty string
HasParam(query, name) == name \in DOMAIN query /\ query[name] # <<>>

\* the public query without its isActive filter
ActiveOnly_Everything(prods) == prods

\* products.filter((p) => p.isActive === true)
ActiveOnly(prods) ==
    Filter(prods, [i \in DOMAIN prods |-> prods[i].isActive = TRUE])

\* the category filter of GET /api/products
ByCategory(prods, query) ==
    IF HasParam(query, "category")
    THEN Filter(prods, [i \in DOMAIN prods |->
                ToLowerCase(prods[i].category) = ToLowerCase(query.category)])
    ELSE prods

\* the search filter of GET /api/products
BySearch(prods, query) ==
    IF HasParam(query, "search")
    THEN Filter(prods, [i \in DOMAIN prods |->
            \/ Includes(ToLowerCase(prods[i].title), ToLowerCase(query.search))
            \/ Includes(ToLowerCase(prods[i].author), ToLowerCase(query.search))])
    ELSE prods

\* the sort step of GET /api/products (the sort parameter is a plain string)
BySort(prods, query) ==
    IF "sort" \in DOMAIN query /\ query.sort # ""
    THEN SortProducts(query.sort, prods)
    ELSE prods

\* the products array GET /api/products answers with
QueryPublic(prods, query) ==
    BySort(BySearch(ByCategory(ActiveOnly(prods), query), query), query)

\* GET /api/products
GetProducts(query) ==
    /\ last' = Served("queryPublic", query, 200)
    /\ UNCHANGED <<products, cartFile, users, calls>>

----------------------------------------------------------------------------
(* Product admin engine *)

RequiredFields == <<"title", "author", "price", "stock">>

\* !req.body[field]: the key is absent, or its value is falsy ("" for the two
\* string fields, 0 for the two numeric ones)
FalsyField(body, field) ==
    \/ field \notin DOMAIN body
    \/ IF field \in {"title", "author"} THEN body[field] = <<>> ELSE body[field] = 0

\* the required-field filter with a test for absent keys only
MissingFields_AbsentOnly(body) ==
    Filter(RequiredFields,
           [i \in DOMAIN RequiredFields |-> RequiredFields[i] \notin DOMAIN body])

\* requiredFields.filter((field) => !req.body[field])
MissingFields(body) ==
    Filter(RequiredFields,
           [i \in DOMAIN RequiredFields |-> FalsyField(body, RequiredFields[i])])

\* discountPrice is present and truthy
HasDiscount(body) == "discountPrice" \in DOMAIN body /\ body.discountPrice # 0

\* the validations without the test of the price
CreateRejects_NoPriceCheck(body) ==
    IF MissingFields(body) # <<>> THEN 400
    ELSE IF body.stock < 0 THEN 400
    ELSE IF HasDiscount(body) /\ body.discountPrice > body.price THEN 400
    ELSE 0

\* the validations of POST /api/admin/products: 400 when one fails, else 0
CreateRejects(body) ==
    IF MissingFields(body) # <<>> THEN 400
    ELSE IF body.price < 0 THEN 400
    ELSE IF body.stock < 0 THEN 400
    ELSE IF HasDiscount(body) /\ body.discountPrice > body.price THEN 400
    ELSE 0

\* the response body of a POST /api/admin/products that fails a validation
CreateError(body) ==
    IF MissingFields(body) # <<>>
    THEN [success |-> FALSE, message |-> "Campuri obligatorii lipsa",
          missingFields |-> MissingFields(body)]
    ELSE IF body.price < 0
    THEN [success |-> FALSE, message |-> "Pretul nu poate fi negativ"]
    ELSE IF body.stock < 0
    THEN [success |-> FALSE, message |-> "Stocul nu poate fi negativ"]
    ELSE [success |-> FALSE,
          message |-> "Pretul redus nu poate fi mai mare decat pretul original"]

\* lastProduct ? lastProduct.id + 1 : 1
NewId(prods) == IF prods # <<>> THEN prods[Len(prods)].id + 1 ELSE 1

\* the default category, the string "General"
General == <<"G", "e", "n", "e", "r", "a", "l">>

\* category?.trim() || "General"
CategoryOf(body) ==
    IF "category" \in DOMAIN body /\ Trim(body.category) # <<>>
    THEN Trim(body.category)
    ELSE General

\* the record POST /api/admin/products appends; price, discountPrice and stock
\* arrive as JSON numbers, which parseFloat and parseInt return unchanged when
\* they are whole
NewProduct(prods, body) ==
    [id |-> NewId(prods),
     title |-> Trim(body.title),
     author |-> Trim(body.author),
     category |-> CategoryOf(body),
     price |-> body.price,
     discountPrice |-> IF HasDiscount(body) THEN <<body.discountPrice>> ELSE <<>>,
     stock |-> body.stock,
     isActive |-> TRUE]

\* POST /api/admin/products
AdminCreate(authHeader, body) ==
    /\ UNCHANGED <<cartFile, users, calls>>
    /\ IF AdminGate(authHeader) # 0
       THEN /\ last' = Served("create", [auth |-> authHeader, body |-> body],
                              AdminGate(authHeader))
            /\ UNCHANGED products
       ELSE IF CreateRejects(body) # 0
       THEN /\ last' = Answered("create", [auth |-> authHeader, body |-> body],
                                CreateRejects(body), CreateError(body))
            /\ UNCHANGED products
       ELSE /\ Len(readProducts) < MaxProducts
            /\ NewId(readProducts) <= MaxId
            /\ products' = Append(readProducts, NewProduct(readProducts, body))
            /\ last' = Served("create", [auth |-> authHeader, body |-> body], 201)

\* products.findIndex((p) => p.id === productId) with productId = parseInt(id)
FindById(prods, id) ==
    FindIndex([i \in DOMAIN prods |-> prods[i].id \in ParseInt(id)])

\* { ...products[productIndex], ...updates }
Merge(product, updates) ==
    [k \in DOMAIN product \cup DOMAIN updates |->
        IF k \in DOMAIN updates THEN updates[k] ELSE product[k]]

\* the collection PUT /api/admin/products/:id writes
UpdatedProducts(prods, productIndex, updates) ==
    [prods EXCEPT ![productIndex] = Merge(prods[productIndex], updates)]

\* PUT /api/admin/products/:id
AdminUpdate(authHeader, id, updates) ==
    /\ UNCHANGED <<cartFile, users, calls>>
    /\ IF AdminGate(authHeader) # 0
       THEN /\ last' = Served("update", [auth |-> authHeader, id |-> id, body |-> updates],
                              AdminGate(authHeader))
            /\ UNCHANGED products
       ELSE IF FindById(readProducts, id) = 0
       THEN /\ last' = Served("update", [auth |-> authHeader, id |-> id, body |-> updates],
                              404)
            /\ UNCHANGED products
       ELSE /\ products' = UpdatedProducts(readProducts, FindById(readProducts, id),
                                            updates)
            /\ last' = Served("update", [auth |-> authHeader, id |-> id, body |-> updates],
                              200)

\* const { permanent = false } = req.query; if (permanent): a query-string value
\* is a string, and every string but "" is truthy
Permanent(query) == "permanent" \in DOMAIN query /\ query.permanent # ""

\* the collection DELETE /api/admin/products/:id writes
DeletedProducts(prods, productIndex, query) ==
    IF Permanent(query)
    THEN RemoveAt(prods, productIndex)
    ELSE [prods EXCEPT ![productIndex].isActive = FALSE]

\* DELETE /api/admin/products/:id
AdminDelete(authHeader, id, query) ==
    /\ UNCHANGED <<cartFile, users, calls>>
    /\ IF AdminGate(authHeader) # 0
       THEN /\ last' = Served("delete", [auth |-> authHeader, id |-> id, query |-> query],
                              AdminGate(authHeader))
            /\ UNCHANGED products
       ELSE IF FindById(readProducts, id) = 0
       THEN /\ last' = Served("delete", [auth |-> authHeader, id |-> id, query |-> query],
                              404)
            /\ UNCHANGED products
       ELSE /\ products' = DeletedProducts(readProducts, FindById(readProducts, id),
                                            query)
            /\ last' = Served("delete", [auth |-> authHeader, id |-> id, query |-> query],
                              200)

\* GET /api/admin/products/:id
AdminGet(authHeader, id) ==
    /\ UNCHANGED <<products, cartFile, users, calls>>
    /\ last' = Served("get", [auth |-> authHeader, id |-> id],
                      IF AdminGate(authHeader) # 0 THEN AdminGate(authHeader)
                      ELSE IF FindById(readProducts, id) = 0 THEN 404
                      ELSE 200)

----------------------------------------------------------------------------
(* Admin query engine: GET /api/admin/products                              *)
(* The query string holds category, search, page and limit as strings of    *)
(* characters and status, sortBy and sortOrder as plain strings. A number   *)
(* that may be NaN is the set of its values, {} for NaN.                    *)

\* const { status = "all" } = req.query
QueryStatus(query) == IF "status" \in DOMAIN query THEN query.status ELSE "all"

\* the status filter
ByStatus(prods, query) ==
    IF QueryStatus(query) = "active"
    THEN Filter(prods, [i \in DOMAIN prods |-> prods[i].isActive = TRUE])
    ELSE IF QueryStatus(query) = "inactive"
    THEN Filter(prods, [i \in DOMAIN prods |-> prods[i].isActive = FALSE])
    ELSE prods

\* the category value "all"
AllCategories == <<"a", "l", "l">>

\* the category filter: category && category !== "all", then a substring test
ByCategoryAdmin(prods, query) ==
    IF HasParam(query, "category") /\ query.category # AllCategories
    THEN Filter(prods, [i \in DOMAIN prods |->
                Includes(ToLowerCase(prods[i].category), ToLowerCase(query.category))])
    ELSE prods

\* the search filter; the records of the model hold no isbn, so the third
\* disjunct (p.isbn && p.isbn.includes(search)) is falsy
BySearchAdmin(prods, query) ==
    IF HasParam(query, "search")
    THEN Filter(prods, [i \in DOMAIN prods |->
            \/ Includes(ToLowerCase(prods[i].title), ToLowerCase(query.search))
            \/ Includes(ToLowerCase(prods[i].author), ToLowerCase(query.search))])
    ELSE prods

\* const sortField = sortBy || "createdAt"
SortField(query) ==
    IF "sortBy" \in DOMAIN query /\ query.sortBy # "" THEN query.sortBy ELSE "createdAt"

\* const order = sortOrder === "asc" ? 1 : -1
SortOrder(query) ==
    IF "sortOrder" \in DOMAIN query /\ query.sortOrder = "asc" THEN 1 ELSE -1

\* the comparator of products.sort; a field the records of the model do not
\* hold compares as NaN, which sort takes as 0
AdminCompare(sortField, order, a, b) ==
    CASE sortField \in {"title", "author", "category"}
            -> order * LocaleCompare(a[sortField], b[sortField])
      [] sortField \in {"price", "stock"} -> order * (a[sortField] - b[sortField])
      [] OTHER -> 0

\* x placed behind the last element that does not compare greater than it
AdminInsertSorted(sortField, order, s, x) ==
    LET k == IF \E i \in DOMAIN s : AdminCompare(sortField, order, s[i], x) <= 0
             THEN CHOOSE i \in DOMAIN s :
                      /\ AdminCompare(sortField, order, s[i], x) <= 0
                      /\ \A j \in (i + 1) .. Len(s) :
                            AdminCompare(sortField, order, s[j], x) > 0
             ELSE 0
    IN  SubSeq(s, 1, k) \o <<x>> \o SubSeq(s, k + 1, Len(s))

\* products.sort (stable) under the comparator of the sort field and order
RECURSIVE AdminSort(_, _, _)
AdminSort(sortField, order, s) ==
    IF s = <<>> THEN <<>>
    ELSE AdminInsertSorted(sortField, order,
                           AdminSort(sortField, order, SubSeq(s, 1, Len(s) - 1)),
                           s[Len(s)])

\* the filtered and sorted array the window and the statistics are taken from
FilteredSorted(prods, query) ==
    AdminSort(SortField(query), SortOrder(query),
              BySearchAdmin(ByCategoryAdmin(ByStatus(prods, query), query), query))

\* const { page = 1, limit = 50 } = req.query
DefaultPage == 1
DefaultLimit == 50

\* parseInt(page), parseInt(limit): the default applies to an absent key only
PageNum(query) == IF "page" \in DOMAIN query THEN ParseInt(query.page) ELSE {DefaultPage}
LimitNum(query) ==
    IF "limit" \in DOMAIN query THEN ParseInt(query.limit) ELSE {DefaultLimit}

\* (pageNum - 1) * limitNum and startIndex + limitNum, NaN when a factor is
StartIndex(query) == {(pg - 1) * lim : pg \in PageNum(query), lim \in LimitNum(query)}
EndIndex(query) == {st + lim : st \in StartIndex(query), lim \in LimitNum(query)}

\* the position Array.prototype.slice takes for an argument: NaN is 0, a
\* negative number counts from the end, and the result lies within 0 .. len
SliceIndex(len, k) ==
    IF k = {} THEN 0
    ELSE LET n == CHOOSE x \in k : TRUE
         IN  IF n < 0 THEN (IF len + n < 0 THEN 0 ELSE len + n)
             ELSE IF n > len THEN len ELSE n

\* products.slice(startIndex, endIndex)
Slice(s, start, end) ==
    IF SliceIndex(Len(s), start) < SliceIndex(Len(s), end)
    THEN SubSeq(s, SliceIndex(Len(s), start) + 1, SliceIndex(Len(s), end))
    ELSE <<>>

\* the statistics object, counted on the filtered array
Statistics(prods) ==
    [total |-> Len(prods),
     active |-> Len(Filter(prods, [i \in DOMAIN prods |-> prods[i].isActive])),
     inactive |-> Len(Filter(prods, [i \in DOMAIN prods |-> ~prods[i].isActive])),
     lowStock |-> Len(Filter(prods, [i \in DOMAIN prods |->
                                       prods[i].stock < 10 /\ prods[i].stock > 0])),
     outOfStock |-> Len(Filter(prods, [i \in DOMAIN prods |-> prods[i].stock = 0]))]

\* Math.ceil(totalProducts / limitNum); {} when the quotient is no finite number
TotalPages(total, limitNum) ==
    {(total + lim - 1) \div lim : lim \in {l \in limitNum : l > 0}}

\* the pagination object
Pagination(prods, query) ==
    [currentPage |-> PageNum(query),
     totalPages |-> TotalPages(Len(prods), LimitNum(query)),
     totalProducts |-> Len(prods),
     productsPerPage |-> LimitNum(query),
     hasNextPage |-> \E e \in EndIndex(query) : e < Len(prods),
     hasPrevPage |-> \E st \in StartIndex(query) : st > 0]

\* the response with the statistics counted on the page that is returned
AdminListResponse_PageStatistics(prods, query) ==
    LET filtered == FilteredSorted(prods, query)
        paginatedProducts == Slice(filtered, StartIndex(query), EndIndex(query))
    IN  [success |-> TRUE,
         products |-> paginatedProducts,
         pagination |-> Pagination(filtered, query),
         statistics |-> Statistics(paginatedProducts)]

\* the response body of GET /api/admin/products
AdminListResponse(prods, query) ==
    LET filtered == FilteredSorted(prods, query)
        paginatedProducts == Slice(filtered, StartIndex(query), EndIndex(query))
    IN  [success |-> TRUE,
         products |-> paginatedProducts,
         pagination |-> Pagination(filtered, query),
         statistics |-> Statistics(filtered)]

\* GET /api/admin/products
AdminList(authHeader, query) ==
    /\ UNCHANGED <<products, cartFile, users, calls>>
    /\ IF AdminGate(authHeader) # 0
       THEN last' = Served("list", [auth |-> authHeader, query |-> query],
                           AdminGate(authHeader))
       ELSE last' = Answered("list", [auth |-> authHeader, query |-> query], 200,
                             AdminListResponse(readProducts, query))

----------------------------------------------------------------------------
(* Requests the model sends *)

\* Authorization headers, as the words authHeader.split(" ") yields
AdminHeader == <<"Bearer", "adminJwt">>
RejectedHeaders ==
    {<<>>, <<"Bearer">>, <<"Bearer", "userJwt">>, <<"Bearer", "expiredJwt">>,
     <<"Bearer", "forgedJwt">>}
\* headers that are not "Bearer <token>" although they carry the admin's token:
\* another scheme word before it, no scheme word
SchemeHeaders == {<<"Basic", "adminJwt">>, <<"adminJwt">>}
AuthHeaders == {AdminHeader} \cup RejectedHeaders \cup SchemeHeaders

Digits == <<"0", "1", "2", "3", "4", "5", "6", "7", "8", "9">>

\* the path parameter that names identifier k
IdPath(k) == <<Digits[k + 1]>>

\* path parameters: the identifiers in range, and two that are no plain number
PathIds == {IdPath(k) : k \in 1 .. MaxId} \cup {<<"x">>, <<"2", "x">>}

\* bodies of POST /api/admin/products: two valid books, then one body for each
\* validation
BookA == [title |-> <<"A", "b", " ">>, author |-> <<"B", "a">>, price |-> 20,
          stock |-> 5, category |-> <<"A">>, discountPrice |-> 15]
BookB == [title |-> <<"a", "B">>, author |-> <<"b">>, price |-> 10, stock |-> 1]
InvalidBodies ==
    {[title |-> <<"A">>],
     [title |-> <<"A">>, author |-> <<"b">>, price |-> 10, stock |-> 0],
     [title |-> <<"A">>, author |-> <<"b">>, price |-> 0 - 5, stock |-> 1],
     [title |-> <<"A">>, author |-> <<"b">>, price |-> 20, stock |-> 0 - 1],
     [title |-> <<"A">>, author |-> <<"b">>, price |-> 20, stock |-> 1,
      discountPrice |-> 30]}

\* users of data/users.json: an administrator and a customer
AdminUser == [id |-> 1, email |-> <<"a">>, password |-> BcryptHash(<<"p", "q">>),
              role |-> "admin", name |-> "Admin"]
Customer == [id |-> 2, email |-> <<"c">>, password |-> BcryptHash(<<"p", "q">>),
             role |-> "customer", name |-> "Client"]
Staff == <<AdminUser, Customer>>

\* query strings of DELETE /api/admin/products/:id
NoQuery == [k \in {} |-> ""]
DeleteQueries == {NoQuery} \cup {[permanent |-> v] : v \in {"true", "false", ""}}

\* query strings of GET /api/products
PublicQueries ==
    {NoQuery, [category |-> <<"a">>], [category |-> <<>>],
     [search |-> <<"A", "B">>], [search |-> <<"b">>, sort |-> "price_desc"],
     [category |-> General, sort |-> "title_asc"], [sort |-> "price_asc"],
     [sort |-> "title_desc"], [sort |-> "newest"],
     [category |-> <<"A">>, search |-> <<"a">>, sort |-> "title_asc"]}

----------------------------------------------------------------------------
(* Spec: the product collection under the admin routes, every kind of        *)
(* Authorization header, every path parameter and patches of id and isActive *)

\* bodies of PUT /api/admin/products/:id
Patches == {[id |-> k] : k \in 1 .. MaxId} \cup {[isActive |-> TRUE]}

\* a request a rejected header is sent with: it names the first identifier and
\* would change the collection if the handler ran
CreateRequests ==
    {[auth |-> AdminHeader, body |-> b] : b \in {BookA} \cup InvalidBodies}
    \cup {[auth |-> h, body |-> BookA] : h \in RejectedHeaders \cup SchemeHeaders}
UpdateRequests ==
    {[auth |-> AdminHeader, id |-> i, body |-> u] : i \in PathIds, u \in Patches}
    \cup {[auth |-> h, id |-> IdPath(1), body |-> [id |-> 2]] :
            h \in RejectedHeaders \cup SchemeHeaders}
DeleteRequests ==
    {[auth |-> AdminHeader, id |-> i, query |-> q] : i \in PathIds, q \in DeleteQueries}
    \cup {[auth |-> h, id |-> IdPath(1), query |-> q] :
            h \in RejectedHeaders, q \in {NoQuery, [permanent |-> "true"]}}
GetRequests ==
    {[auth |-> h, id |-> i] : h \in AuthHeaders, i \in {IdPath(1), <<"x">>}}

Init ==
    /\ products = <<>>
    /\ cartFile = <<>>
    /\ last = Served("start", NoRequest, 0)
    /\ users = Staff
    /\ calls = <<>>

Next ==
    \/ \E r \in CreateRequests : AdminCreate(r.auth, r.body)
    \/ \E r \in UpdateRequests : AdminUpdate(r.auth, r.id, r.body)
    \/ \E r \in DeleteRequests : AdminDelete(r.auth, r.id, r.query)
    \/ \E r \in GetRequests : AdminGet(r.auth, r.id)
    \/ \E h \in AuthHeaders : AdminList(h, [sortBy |-> "title"])

Spec == Init /\ [][Next]_vars

----------------------------------------------------------------------------
(* ValidationSpec: create with bodies that pass or fail each validation,     *)
(* update with patches of price, stock and discountPrice, soft and hard      *)
(* delete                                                                    *)

\* bodies of POST /api/admin/products with required fields absent or falsy
MissingBodies ==
    {NoRequest,
     [author |-> <<"b">>, stock |-> 3],
     [title |-> <<>>, author |-> <<"b">>, price |-> 10, stock |-> 1],
     [title |-> <<"A">>, author |-> <<>>, price |-> 0, stock |-> 1],
     [title |-> <<"A">>, price |-> 10, discountPrice |-> 30]}

\* bodies of PUT /api/admin/products/:id that create would not accept
PricePatches == {[price |-> 0 - 5], [stock |-> 0 - 1, discountPrice |-> <<30>>]}

ValidationNext ==
    \/ \E body \in {BookA} \cup InvalidBodies \cup MissingBodies :
          AdminCreate(AdminHeader, body)
    \/ \E k \in 1 .. MaxId, updates \in PricePatches :
          AdminUpdate(AdminHeader, IdPath(k), updates)
    \/ \E k \in 1 .. MaxId, query \in {NoQuery, [permanent |-> "true"]} :
          AdminDelete(AdminHeader, IdPath(k), query)

ValidationSpec == Init /\ [][ValidationNext]_vars

----------------------------------------------------------------------------
(* LoginSpec: login requests against each users collection *)

\* a second administrator, whose email differs from the first one's by case
SecondAdmin == [id |-> 3, email |-> <<"A">>, password |-> BcryptHash(<<"q">>),
                role |-> "admin", name |-> "Second"]

\* contents of data/users.json, emails unique: the file missing, each user
\* alone, both in either order, a non-admin user that holds the administrator's
\* email, two administrators
UserCollections ==
    {<<>>, <<AdminUser>>, <<Customer>>, Staff, <<Customer, AdminUser>>,
     <<[Customer EXCEPT !.email = <<"a">>]>>, <<AdminUser, SecondAdmin>>}

LoginEmails == {<<>>, <<"a">>, <<"A">>, <<"c">>}
LoginPasswords == {<<>>, <<"p", "q">>, <<"q", "p">>, <<"q">>}

\* bodies of POST /api/admin/login
LoginBodies ==
    {NoRequest}
    \cup {[email |-> e] : e \in LoginEmails}
    \cup {[password |-> w] : w \in LoginPasswords}
    \cup {[email |-> e, password |-> w] : e \in LoginEmails, w \in LoginPasswords}

LoginInit ==
    /\ products = <<>>
    /\ cartFile = <<>>
    /\ last = Served("start", NoRequest, 0)
    /\ users \in UserCollections
    /\ calls = <<>>

LoginNext == \E body \in LoginBodies : AdminLogin(body)

LoginSpec == LoginInit /\ [][LoginNext]_vars

----------------------------------------------------------------------------
(* ListSpec: the admin query over a collection that an admin creates and    *)
(* patches (stock, isActive)                                                *)

\* filters and sort keys of GET /api/admin/products
ListFilters ==
    {[sortBy |-> "title", sortOrder |-> "asc"],
     [status |-> "active", sortBy |-> "price"],
     [status |-> "inactive", category |-> <<"a">>, sortBy |-> "stock",
      sortOrder |-> "asc"],
     [status |-> "all", search |-> <<"B">>, sortBy |-> "title"],
     [status |-> "deleted", category |-> AllCategories, search |-> <<"a">>,
      sortBy |-> "author"]}

\* page and limit of GET /api/admin/products: absent, numerals, no numerals
ListWindows ==
    {NoQuery,
     [page |-> <<"2">>, limit |-> <<"1">>],
     [page |-> <<"x">>],
     [page |-> <<"1">>, limit |-> <<>>]}

ListQueries == {Merge(f, w) : f \in ListFilters, w \in ListWindows}

\* bodies of PUT /api/admin/products/:id: out of stock and inactive, stock at
\* the low-stock threshold
StockPatches == {[stock |-> 0, isActive |-> FALSE], [stock |-> 10]}

ListNext ==
    \/ \E body \in {BookA, BookB} : AdminCreate(AdminHeader, body)
    \/ \E k \in 1 .. MaxId, updates \in StockPatches :
          AdminUpdate(AdminHeader, IdPath(k), updates)
    \/ \E query \in ListQueries : AdminList(AdminHeader, query)

ListSpec == Init /\ [][ListNext]_vars

----------------------------------------------------------------------------
(* CatalogSpec: the public query over a collection that an admin creates,    *)
(* patches (isActive, title, price) and soft- or hard-deletes                *)

CatalogPatches ==
    {[isActive |-> b] : b \in BOOLEAN} \cup {[title |-> <<"b", "a">>, price |-> 8]}

CatalogNext ==
    \/ \E body \in {BookA, BookB} : AdminCreate(AdminHeader, body)
    \/ \E k \in 1 .. MaxId, updates \in CatalogPatches :
          AdminUpdate(AdminHeader, IdPath(k), updates)
    \/ \E k \in 1 .. MaxId, query \in {NoQuery, [permanent |-> "true"]} :
          AdminDelete(AdminHeader, IdPath(k), query)
    \/ \E query \in PublicQueries : GetProducts(query)

CatalogSpec == Init /\ [][CatalogNext]_vars

----------------------------------------------------------------------------
(* CartSpec: the cart routes over a catalog of two books that an admin       *)
(* deactivates and reactivates                                               *)

\* the collection after BookA and BookB were created in an empty collection
Catalog ==
    <<NewProduct(<<>>, BookA), NewProduct(<<NewProduct(<<>>, BookA)>>, BookB)>>

\* bodies of POST /api/cart: productId absent, 0, in the catalog or unknown;
\* quantity absent, negative, 0 or positive
CartBodies ==
    {NoRequest, [quantity |-> 1]}
    \cup {[productId |-> i] : i \in 0 .. 3}
    \cup {[productId |-> i, quantity |-> q] : i \in 1 .. 2, q \in (0 - 1) .. 2}

CartPatches == {[isActive |-> b] : b \in BOOLEAN}

CartInit ==
    /\ products = Catalog
    /\ cartFile = <<>>
    /\ last = Served("start", NoRequest, 0)
    /\ users = Staff
    /\ calls = <<>>

CartNext ==
    \/ \E body \in CartBodies : PostCart(body)
    \/ \E productId \in PathIds : DeleteCartItem(productId)
    \/ ClearCart
    \/ GetCart
    \/ \E k \in 1 .. 2, updates \in CartPatches :
          AdminUpdate(AdminHeader, IdPath(k), updates)

CartSpec == CartInit /\ [][CartNext]_vars

----------------------------------------------------------------------------
(* Claims about the cart, checked under CartSpec *)

\* the sums a cart's totals are compared with, taken from the first line on
RECURSIVE ItemsTotal(_)
ItemsTotal(items) ==
    IF items = <<>> THEN 0
    ELSE Head(items).price * Head(items).quantity + ItemsTotal(Tail(items))

RECURSIVE ItemsCount(_)
ItemsCount(items) ==
    IF items = <<>> THEN 0 ELSE Head(items).quantity + ItemsCount(Tail(items))

\* C1: every persisted cart has total equal to the sum of price * quantity over
\* its items and totalItems equal to the sum of the quantities, whatever
\* sequence of addItem, removeItem and clearCart calls (failing ones included)
\* led to it.
C1_TotalsMatchItems ==
    cartFile # <<>> =>
        /\ cartFile[1].total = ItemsTotal(cartFile[1].items)
        /\ cartFile[1].totalItems = ItemsCount(cartFile[1].items)

\* a cart saved by a successful addItem: two units at 15 and one at 10
C1_Witness ==
    /\ last.op = "addItem" /\ last.status = 200
    /\ cartFile # <<>>
    /\ Len(cartFile[1].items) = 2
    /\ cartFile[1].total = 40
    /\ cartFile[1].totalItems = 3

\* C2: no two line items of the cart have the same productId.
C2_OneLinePerProduct ==
    cartFile # <<>> =>
        \A i, j \in DOMAIN cartFile[1].items :
            i # j => cartFile[1].items[i].productId # cartFile[1].items[j].productId

\* a repeated addItem of the first of two lines was merged into it
C2_Witness ==
    /\ last.op = "addItem" /\ last.status = 200
    /\ cartFile # <<>>
    /\ Len(cartFile[1].items) = 2
    /\ cartFile[1].items[1].productId = last.req.productId
    /\ cartFile[1].items[1].quantity = 2
    /\ BodyQuantity(last.req) = 1

\* an active product with the given identifier exists
HasActive(prods, productId) ==
    \E i \in DOMAIN prods : prods[i].id = productId /\ prods[i].isActive = TRUE

\* the stock of the first active product with the given identifier
StockOf(prods, productId) ==
    prods[CHOOSE i \in DOMAIN prods :
            /\ prods[i].id = productId /\ prods[i].isActive = TRUE
            /\ \A j \in 1 .. (i - 1) :
                  ~(prods[j].id = productId /\ prods[j].isActive = TRUE)].stock

\* the lines of a cart file that hold the given product
LinesOf(file, productId) ==
    IF file = <<>> THEN {}
    ELSE {i \in DOMAIN file[1].items : file[1].items[i].productId = productId}

\* C8: addItem(productId, q) for an active product already in the cart with
\* quantity n succeeds whenever product.stock >= q, and leaves exactly one line
\* for the product, with quantity n + q; the merged total is not compared with
\* the stock.
C8_MergeAddsQuantity ==
    [][(/\ last'.op = "addItem"
        /\ "productId" \in DOMAIN last'.req
        /\ HasActive(products, last'.req.productId)
        /\ LinesOf(cartFile, last'.req.productId) # {}
        /\ StockOf(products, last'.req.productId) >= BodyQuantity(last'.req))
       => /\ last'.status = 200
          /\ Cardinality(LinesOf(cartFile', last'.req.productId)) = 1
          /\ \A i \in LinesOf(cartFile, last'.req.productId) :
                \A j \in LinesOf(cartFile', last'.req.productId) :
                    cartFile'[1].items[j].quantity
                        = cartFile[1].items[i].quantity + BodyQuantity(last'.req)
      ]_vars

\* a merge took the line of a product above the product's stock
C8_Witness ==
    /\ last.op = "addItem" /\ last.status = 200
    /\ "productId" \in DOMAIN last.req
    /\ HasActive(products, last.req.productId)
    /\ \E i \in LinesOf(cartFile, last.req.productId) :
          /\ cartFile[1].items[i].quantity > StockOf(products, last.req.productId)
          /\ cartFile[1].items[i].quantity > BodyQuantity(last.req)
          /\ BodyQuantity(last.req) >= 1

\* C9: addItem answers 400 when productId is absent, 404 when no active product
\* has that identifier, 400 when the product's stock is below the requested
\* quantity, and a failing addItem leaves the persisted cart as it was.
C9_AddItemErrors ==
    [][last'.op = "addItem"
       => /\ "productId" \notin DOMAIN last'.req => last'.status = 400
          /\ ("productId" \in DOMAIN last'.req
                 /\ ~HasActive(products, last'.req.productId))
             => last'.status = 404
          /\ ("productId" \in DOMAIN last'.req
                 /\ HasActive(products, last'.req.productId)
                 /\ StockOf(products, last'.req.productId) < BodyQuantity(last'.req))
             => last'.status = 400
          /\ last'.status # 200 => cartFile' = cartFile
      ]_vars

\* C10: every line item of every cart has quantity >= 1, whatever quantities
\* addItem was called with.
C10_QuantityAtLeastOne ==
    cartFile # <<>> =>
        \A i \in DOMAIN cartFile[1].items : cartFile[1].items[i].quantity >= 1

\* the decimal numerals of the identifiers the model uses, with and without a
\* leading zero
Numerals(n) == {<<Digits[n + 1]>>, <<"0", Digits[n + 1]>>}

\* the persisted cart, EmptyCart standing for a missing file
CartOf(file) == IF file = <<>> THEN EmptyCart ELSE file[1]

\* C15: removeItem answers 200; when no line holds the productId the path
\* names, items, total and totalItems stay as they were; when a line holds it,
\* exactly that line is removed and the other lines stay, unchanged and in
\* their order; a second removeItem of the same productId changes nothing.
C15_RemoveExactlyThatLine ==
    [][last'.op = "removeItem"
       => LET before == CartOf(cartFile)
              after == CartOf(cartFile')
              hit == {i \in DOMAIN before.items :
                        last'.req.productId \in Numerals(before.items[i].productId)}
          IN  /\ last'.status = 200
              /\ hit = {} => /\ after.items = before.items
                             /\ after.total = before.total
                             /\ after.totalItems = before.totalItems
              /\ hit # {} => \E i \in hit :
                                after.items = SubSeq(before.items, 1, i - 1)
                                              \o SubSeq(before.items, i + 1,
                                                         Len(before.items))
              /\ (last.op = "removeItem" /\ last.req = last'.req)
                 => after = before
      ]_vars

\* a removeItem of product 1 left the line of product 2, with its two units
C15_Witness ==
    /\ last.op = "removeItem" /\ last.req.productId = <<"1">>
    /\ cartFile # <<>>
    /\ Len(cartFile[1].items) = 1
    /\ cartFile[1].items[1].productId = 2
    /\ cartFile[1].items[1].quantity = 2
    /\ cartFile[1].totalItems = 2

----------------------------------------------------------------------------
(* SnapshotSpec: the cart routes while an admin changes prices, deletes     *)
(* products softly or for good and creates them again                       *)

\* bodies of PUT /api/admin/products/:id: a new list price without a
\* discount, a new discount
SnapshotPatches == {[price |-> 30, discountPrice |-> <<>>], [discountPrice |-> <<12>>]}

SnapshotNext ==
    \/ \E i \in 1 .. 2 : PostCart([productId |-> i])
    \/ DeleteCartItem(IdPath(1))
    \/ ClearCart
    \/ \E k \in 1 .. 2, updates \in SnapshotPatches :
          AdminUpdate(AdminHeader, IdPath(k), updates)
    \/ \E query \in {NoQuery, [permanent |-> "true"]} :
          AdminDelete(AdminHeader, IdPath(2), query)
    \/ AdminCreate(AdminHeader, BookB)

SnapshotSpec == CartInit /\ [][SnapshotNext]_vars

\* the first active product with the given identifier
ActiveProduct(prods, productId) ==
    prods[CHOOSE i \in DOMAIN prods :
            /\ prods[i].id = productId /\ prods[i].isActive = TRUE
            /\ \A j \in 1 .. (i - 1) :
                  ~(prods[j].id = productId /\ prods[j].isActive = TRUE)]

C20_CartAndProductsIndependent ==
    [][/\ last'.op \in {"addItem", "removeItem", "clearCart"} => products' = products
       /\ last'.op \in {"create", "update", "delete"} => cartFile' = cartFile
      ]_vars

\* a hard delete removed product 2 while the cart holds a line for it
C20_Witness ==
    /\ last.op = "delete" /\ last.status = 200
    /\ "permanent" \in DOMAIN last.req.query
    /\ \A k \in DOMAIN products : products[k].id # 2
    /\ LinesOf(cartFile, 2) # {}

----------------------------------------------------------------------------
(* RaceSpec: cart requests that arrive while others are not yet answered *)

\* the cart requests that write: addItem of either book, removeItem, clearCart
RaceRequests ==
    {[op |-> "addItem", req |-> [productId |-> i]] : i \in 1 .. 2}
    \cup {[op |-> "removeItem", req |-> [productId |-> IdPath(1)]],
          [op |-> "clearCart", req |-> NoRequest]}

RaceNext ==
    \/ \E r \in RaceRequests : Arrive(r.op, r.req)
    \/ \E c \in DOMAIN calls : Begin(c)
    \/ \E c \in DOMAIN calls : Resume(c)

RaceSpec == CartInit /\ [][RaceNext]_vars

\* two addItem calls for different products, the second arrived before the
\* first was answered, both answered 200, and no other handler has started
OverlappingAdds(i, j) ==
    /\ i \in calls[j].overlaps
    /\ calls[i].op = "addItem" /\ calls[j].op = "addItem"
    /\ calls[i].pc = "done" /\ calls[j].pc = "done"
    /\ calls[i].status = 200 /\ calls[j].status = 200
    /\ calls[i].req.productId # calls[j].req.productId
    /\ \A k \in DOMAIN calls : calls[k].op = "addItem" \/ calls[k].pc = "sent"

----------------------------------------------------------------------------
(* Claims about the public query, checked under CatalogSpec *)

\* C3: for every combination of category, search and sort parameters the public
\* query returns no product whose isActive is false, whatever admin creates,
\* updates and soft or hard deletes came before.
C3_PublicOnlyActive ==
    \A query \in PublicQueries :
        \A i \in DOMAIN QueryPublic(products, query) :
            QueryPublic(products, query)[i].isActive = TRUE

\* a public query by category was served while the collection held an inactive
\* product of that category beside an active one that the query returned
C3_Witness ==
    /\ last.op = "queryPublic"
    /\ HasParam(last.req, "category")
    /\ QueryPublic(products, last.req) # <<>>
    /\ \E i \in DOMAIN products :
          /\ products[i].isActive = FALSE
          /\ ToLowerCase(products[i].category) = ToLowerCase(last.req.category)

----------------------------------------------------------------------------
(* Claims about the admin routes, checked under Spec *)

AdminOps == {"list", "get", "create", "update", "delete"}

\* C4: an admin product operation is answered 401 when the request carries no
\* token, 403 when the token fails verification and 403 when the token verifies
\* but its role is not admin, each time leaving the collection unchanged; the
\* collection changes only on a request whose token verifies with role admin.
C4_AdminGate ==
    [][last'.op \in AdminOps
       => LET h == last'.req.auth
              noToken == Len(h) < 2
              payload == IF noToken THEN {} ELSE JwtVerify(h[2])
          IN  /\ noToken => (last'.status = 401 /\ products' = products)
              /\ (~noToken /\ payload = {})
                 => (last'.status = 403 /\ products' = products)
              /\ (\E user \in payload : user.role # "admin")
                 => (last'.status = 403 /\ products' = products)
              /\ products' # products => \E user \in payload : user.role = "admin"
      ]_vars

\* a delete sent with a valid non-admin token was answered 403 while the
\* product it names was in the collection
C4_Witness ==
    /\ last.op = "delete" /\ last.status = 403
    /\ last.req.auth = <<"Bearer", "userJwt">>
    /\ FindById(products, last.req.id) > 0

\* C5: no two products of the collection have the same identifier.
C5_UniqueIds ==
    \A i, j \in DOMAIN products : i # j => products[i].id # products[j].id

\* C6: an update, whatever its patch, and a soft delete leave the id of every
\* product as it was.
C6_IdImmutable ==
    [][(/\ last'.op \in {"update", "delete"}
        /\ last'.status = 200
        /\ Len(products') = Len(products))
       => \A i \in DOMAIN products : products'[i].id = products[i].id
      ]_vars

\* C7: a delete of an existing product removes the record only when permanent
\* is true; for every other value of the parameter, absent and false included,
\* the record stays, with isActive false.
C7_HardDeleteOnlyWhenTrue ==
    [][(last'.op = "delete" /\ last'.status = 200)
       => LET productIndex == FindById(products, last'.req.id)
              permanentTrue == /\ "permanent" \in DOMAIN last'.req.query
                               /\ last'.req.query.permanent = "true"
          IN  IF permanentTrue
              THEN products' = RemoveAt(products, productIndex)
              ELSE products' = [products EXCEPT ![productIndex].isActive = FALSE]
      ]_vars

\* C14: an admin request whose Authorization header is absent or is not of the
\* form "Bearer <token>" (another scheme word before a token that verifies
\* included) is answered 401 and does not reach the handler: the collection
\* stays as it was.
C14_BearerSchemeOnly ==
    [][(/\ last'.op \in AdminOps
        /\ LET h == last'.req.auth
           IN  Len(h) # 2 \/ h[1] # "Bearer" \/ h[2] = "")
       => (last'.status = 401 /\ products' = products)
      ]_vars

----------------------------------------------------------------------------
(* Claims about the validations of create, checked under ValidationSpec *)

\* price >= 0, stock >= 0 and discountPrice <= price when it is present
ValidProduct(p) ==
    /\ p.price >= 0
    /\ p.stock >= 0
    /\ p.discountPrice # <<>> => p.discountPrice[1] <= p.price

FalsyRequired(body) ==
    LET falsy(f) == \/ f \notin DOMAIN body
                    \/ (f \in {"title", "author"} /\ Len(body[f]) = 0)
                    \/ (f \in {"price", "stock"} /\ body[f] = 0)
    IN  (IF falsy("title") THEN <<"title">> ELSE <<>>)
        \o (IF falsy("author") THEN <<"author">> ELSE <<>>)
        \o (IF falsy("price") THEN <<"price">> ELSE <<>>)
        \o (IF falsy("stock") THEN <<"stock">> ELSE <<>>)

\* C12: a create by an admin whose body lacks one of title, author, price,
\* stock, or holds a falsy value for it, is answered 400 with missingFields
\* listing exactly those fields in the order title, author, price, stock, and
\* leaves the collection unchanged.
C12_MissingFields ==
    [][(/\ last'.op = "create"
        /\ AdminGate(last'.req.auth) = 0
        /\ FalsyRequired(last'.req.body) # <<>>)
       => /\ last'.status = 400
          /\ "missingFields" \in DOMAIN last'.body
          /\ last'.body.missingFields = FalsyRequired(last'.req.body)
          /\ products' = products
      ]_vars

\* a create whose body holds an empty author and price 0 beside a title and a
\* stock was answered 400 while the collection held a product
C12_Witness ==
    /\ last.op = "create" /\ last.status = 400
    /\ "body" \in DOMAIN last
    /\ "missingFields" \in DOMAIN last.body
    /\ last.body.missingFields = <<"author", "price">>
    /\ products # <<>>

----------------------------------------------------------------------------
(* Claims about login, checked under LoginSpec *)

\* C13: login issues a token if and only if email and password are given, the
\* users collection holds a user with exactly that email and role admin, and
\* the password matches that user's hash; without such a user the answer is the
\* same 401 whether or not a non-admin user holds the email; a wrong password
\* is answered 401 and a missing email or password 400, all without a token.
C13_LoginTokenIff ==
    [][last'.op = "login"
       => LET body == last'.req
              given == /\ "email" \in DOMAIN body /\ Len(body.email) > 0
                       /\ "password" \in DOMAIN body /\ Len(body.password) > 0
              admins == IF given
                        THEN {i \in DOMAIN users : /\ users[i].email = body.email
                                                   /\ users[i].role = "admin"}
                        ELSE {}
              matching == {i \in admins : BcryptCompare(body.password, users[i].password)}
              token == "token" \in DOMAIN last'.body
          IN  /\ token <=> matching # {}
              /\ token => /\ last'.status = 200
                          /\ \E i \in matching : /\ last'.body.token.id = users[i].id
                                                  /\ last'.body.token.role = "admin"
              /\ ~given => last'.status = 400
              /\ (given /\ admins = {})
                 => /\ last'.status = 401
                    /\ last'.body = [success |-> FALSE,
                                     message |-> "Acces restrictionat doar administratori"]
              /\ (admins # {} /\ matching = {}) => last'.status = 401
      ]_vars

\* a login with the administrator's password was answered 401 without a token
\* because the only user that holds the email is not an administrator
C13_Witness ==
    /\ last.op = "login" /\ last.status = 401
    /\ "token" \notin DOMAIN last.body
    /\ \E i \in DOMAIN users :
          /\ users[i].email = last.req.email
          /\ users[i].role # "admin"
          /\ BcryptCompare(last.req.password, users[i].password)

----------------------------------------------------------------------------
(* Claims about the admin query, checked under ListSpec *)

\* a product passes the status, category and search filters of a query
InFilter(p, q) ==
    /\ ("status" \in DOMAIN q /\ q.status = "active") => p.isActive
    /\ ("status" \in DOMAIN q /\ q.status = "inactive") => ~p.isActive
    /\ ("category" \in DOMAIN q /\ Len(q.category) > 0 /\ q.category # <<"a", "l", "l">>)
       => Includes(ToLowerCase(p.category), ToLowerCase(q.category))
    /\ ("search" \in DOMAIN q /\ Len(q.search) > 0)
       => \/ Includes(ToLowerCase(p.title), ToLowerCase(q.search))
          \/ Includes(ToLowerCase(p.author), ToLowerCase(q.search))

\* a query without its page and limit
FiltersOf(q) == [k \in DOMAIN q \ {"page", "limit"} |-> q[k]]

\* C16: for every combination of status, category and search and every page
\* and limit, the statistics of the admin query are those of the whole
\* filtered set: total is the number of products that pass the filters, active
\* + inactive = total, lowStock counts the filtered products with 0 < stock <
\* 10, outOfStock those with stock = 0, and the same filters give the same
\* statistics under every page and limit.
C16_StatisticsOverFilteredSet ==
    [][(last'.op = "list" /\ last'.status = 200)
       => LET q == last'.req.query
              st == last'.body.statistics
              passing == {i \in DOMAIN products : InFilter(products[i], q)}
          IN  /\ st.total = Cardinality(passing)
              /\ st.active + st.inactive = st.total
              /\ st.active = Cardinality({i \in passing : products[i].isActive})
              /\ st.lowStock = Cardinality({i \in passing : /\ 0 < products[i].stock
                                                              /\ products[i].stock < 10})
              /\ st.outOfStock = Cardinality({i \in passing : products[i].stock = 0})
              /\ (/\ last.op = "list" /\ last.status = 200
                  /\ FiltersOf(last.req.query) = FiltersOf(q))
                 => last.body.statistics = st
      ]_vars

\* a listing returned a page of one product while its statistics counted two,
\* one of them inactive and out of stock
C16_Witness ==
    /\ last.op = "list" /\ last.status = 200
    /\ Len(last.body.products) = 1
    /\ last.body.statistics.total = 2
    /\ last.body.statistics.inactive = 1
    /\ last.body.statistics.outOfStock = 1
    /\ last.body.statistics.lowStock = 1

\* C17: in the admin query a page that is absent or holds no integer counts as
\* page 1 and a limit that is absent or holds no integer as 50; with page >= 1
\* and limit >= 1 taken that way, the response holds the slice
\* [(page-1)*limit, page*limit) of the filtered sorted set, currentPage = page
\* and productsPerPage = limit.
C17_PageAndLimitDefaults ==
    [][(last'.op = "list" /\ last'.status = 200)
       => LET q == last'.req.query
              given(name) == IF name \in DOMAIN q THEN ParseInt(q[name]) ELSE {}
              page == IF given("page") = {} THEN 1 ELSE CHOOSE n \in given("page") : TRUE
              limit == IF given("limit") = {} THEN 50
                       ELSE CHOOSE n \in given("limit") : TRUE
              all == FilteredSorted(products, q)
              from == IF (page - 1) * limit > Len(all) THEN Len(all)
                      ELSE (page - 1) * limit
              to == IF page * limit > Len(all) THEN Len(all) ELSE page * limit
          IN  (page >= 1 /\ limit >= 1)
              => /\ last'.body.products = SubSeq(all, from + 1, to)
                 /\ last'.body.pagination.currentPage = {page}
                 /\ last'.body.pagination.productsPerPage = {limit}
      ]_vars

====
